---- MODULE Spec2Model ----
(***************************************************************************)
(* A model of wix/reactive-fs: the in-memory file system of                *)
(* src/src/memory-fs.ts (MemoryFileSystem), the deadline proxy             *)
(* (TimeoutFileSystem), the event relay and the connection of the RPC      *)
(* bridge, and the store under subscribers that call back into it.         *)
(*                                                                         *)
(* A string is a sequence of one-character strings, so that splitting a    *)
(* path at the separator and joining names again are computed, not         *)
(* assumed.  A node of the tree is a record, as the classes Directory and  *)
(* File are; a directory holds the sequence of its children in insertion   *)
(* order.  File contents are opaque and are TLA+ strings.                  *)
(***************************************************************************)
EXTENDS Integers, Sequences, FiniteSets, TLC

(* ------------------------------ bounds -------------------------------- *)

\* the longest path string a caller passes, in characters
MaxPathLen == 3
\* the longest run of name characters in a path string
MaxNameLen == 1
\* the most nodes (root excluded) the store holds
MaxNodes == 3

\* the characters names are made of
NameChars == {"a", "b"}
\* the text contents a caller saves; the empty string is one of them
Contents == {"", "x"}

(* --------------------------- strings, paths --------------------------- *)

pathSeparator == "/"

Chars == NameChars \cup {pathSeparator}

\* the value of a missing argument, of Array.pop() on an empty array, of
\* lodash's find() without a match, and of File.content when not given
Undefined == "undefined"

\* the node-shaped value that null and undefined have where a node is expected
Null == [type |-> "null"]

None == "none"

RECURSIVE SeqsUpTo(_, _)
SeqsUpTo(S, n) ==
    IF n = 0 THEN {<<>>}
    ELSE LET shorter == SeqsUpTo(S, n - 1)
         IN  shorter \cup {Append(s, c) : s \in shorter, c \in S}

RECURSIVE splitPath(_, _)
splitPath(chars, cur) ==
    IF chars = <<>> THEN <<cur>>
    ELSE IF Head(chars) = pathSeparator
         THEN <<cur>> \o splitPath(Tail(chars), <<>>)
         ELSE splitPath(Tail(chars), Append(cur, Head(chars)))

\* path.split(pathSeparator).filter(name => name.length)
getPathNodes(path) ==
    SelectSeq(splitPath(path, <<>>), LAMBDA name : Len(name) > 0)

RECURSIVE join(_, _)
\* Array.prototype.join
join(arr, sep) ==
    IF arr = <<>> THEN <<>>
    ELSE IF Len(arr) = 1 THEN arr[1]
    ELSE arr[1] \o <<sep>> \o join(Tail(arr), sep)

\* the path strings a caller passes
Paths ==
    {p \in SeqsUpTo(Chars, MaxPathLen) :
        \A i \in 1..Len(splitPath(p, <<>>)) :
            Len(splitPath(p, <<>>)[i]) <= MaxNameLen}

Front(s) == SubSeq(s, 1, Len(s) - 1)
Last(s) == s[Len(s)]

(* ------------------------------- nodes -------------------------------- *)

Directory(name, fullPath, children) ==
    [type |-> "dir", name |-> name, fullPath |-> fullPath, children |-> children]

File(name, fullPath, content) ==
    [type |-> "file", name |-> name, fullPath |-> fullPath, content |-> content]

ShallowDirectory(name, fullPath) ==
    [type |-> "dir", name |-> name, fullPath |-> fullPath]

isDir(node) == node.type = "dir"
isFile(node) == node.type = "file"

\* the index of the first child named name, 0 when there is none
RECURSIVE findIndexFrom(_, _, _)
findIndexFrom(children, name, i) ==
    IF i > Len(children) THEN 0
    ELSE IF children[i].name = name THEN i
    ELSE findIndexFrom(children, name, i + 1)

findIndex(children, name) == findIndexFrom(children, name, 1)

\* the lookup of a child finds none
find_nothing(children, name) == Null

\* lodash find(children, {name}): the first child of that name, or undefined
find(children, name) ==
    LET i == findIndex(children, name)
    IN  IF i = 0 THEN Null ELSE children[i]

RECURSIVE getPathTarget(_, _)
getPathTarget(current, pathArr) ==
    IF pathArr = <<>> THEN current
    ELSE LET name == Head(pathArr)
         IN  IF name # <<>>
             THEN LET node == find(current.children, name)
                  IN  IF isDir(node)
                      THEN getPathTarget(node, Tail(pathArr))
                      ELSE Null
             ELSE Null

\* The tree after an assignment to the children of the directory that
\* getPathTarget(current, pathArr) returns: objects are shared by reference
\* in the source, so the assignment is seen from the root.
RECURSIVE setChildren(_, _, _)
setChildren(current, pathArr, newChildren) ==
    IF pathArr = <<>> THEN [current EXCEPT !.children = newChildren]
    ELSE LET i == findIndex(current.children, Head(pathArr))
         IN  [current EXCEPT !.children[i] =
                 setChildren(current.children[i], Tail(pathArr), newChildren)]

RECURSIVE NodeCount(_)
RECURSIVE NodeCountAll(_)
NodeCountAll(children) ==
    IF children = <<>> THEN 0
    ELSE NodeCount(Head(children)) + NodeCountAll(Tail(children))

\* the number of nodes of a subtree, its top included
NodeCount(node) ==
    IF isDir(node) THEN 1 + NodeCountAll(node.children) ELSE 1

(* ------------------------------- state -------------------------------- *)

VARIABLES
    root,      \* MemoryFileSystem.root: the tree
    ignored,   \* the path strings isIgnored answers true for (set at construction)
    pc,        \* "idle", or "settling": a call's core has run, its promise has not settled
    call,      \* the call whose core ran last: [op, fullPath, newContent, recursive]
    pre,       \* the tree when that call started
    events,    \* the events that call emitted on this.events, in order
    outcome    \* [err, ret]: what that call threw (None: nothing) and returned

vars == <<root, ignored, pc, call, pre, events, outcome>>

\* the path strings an ignore list may match; the predicate is opaque, so a
\* path may be ignored while its descendants are not
Ignorable == {<<>>, <<"a">>, <<"a", "/", "b">>}

\* this.isIgnored(path)
isIgnored(path) == path \in ignored

(* ------------------------------- events ------------------------------- *)

fileCreated(fullPath, newContent) ==
    [type |-> "fileCreated", fullPath |-> fullPath, newContent |-> newContent]

fileChanged(fullPath, newContent) ==
    [type |-> "fileChanged", fullPath |-> fullPath, newContent |-> newContent]

fileDeleted(fullPath) == [type |-> "fileDeleted", fullPath |-> fullPath]

directoryCreated(fullPath) == [type |-> "directoryCreated", fullPath |-> fullPath]

directoryDeleted(fullPath) == [type |-> "directoryDeleted", fullPath |-> fullPath]

(* --------------------------- error messages --------------------------- *)

\* every failure is a plain Error; its message tells the failures apart
ErrSaveIgnored == "Unable to save ignored path"
ErrRootFileName == "root is not a legal file name"
ErrUnexpected == "unexpected error: not a legal file name?"
ErrFileSave == "file save error for path"
ErrDirIsNotFile == "Directory is not a file"
ErrDeleteRoot == "Can't delete root directory"
ErrFileIsNotDir == "File is not a directory"
ErrNotEmpty == "Directory is not empty"
ErrReadWriteIgnored == "Unable to read and write ignored path"
ErrReadIgnored == "Unable to read ignored path"
ErrFileIsDir == "File is a directory"
ErrCannotFind == "Cannot find file"
ErrReadFolder == "Unable to read folder in path"

\* what a synchronous core leaves behind: the tree, the events emitted, the
\* error thrown (None: it returned) and the value returned
Result(r, evs, err, ret) == [root |-> r, events |-> evs, err |-> err, ret |-> ret]

(* ------------------------- ensureDirectorySync ------------------------ *)

\* a directory's fullPath is its own name alone
accumulatedPath_nameOnly(current, name) == name

\* the fullPath of a directory created under `current`
accumulatedPath(current, name) ==
    IF current.fullPath # <<>>
    THEN join(<<current.fullPath, name>>, pathSeparator)
    ELSE name

RECURSIVE ensureReduce(_, _)
\* the reduce over the path's names, from `current` on: the directory
\* `current` as the walk leaves it, the events emitted, the error thrown
ensureReduce(current, names) ==
    IF names = <<>> THEN [node |-> current, events |-> <<>>, err |-> None]
    ELSE
    LET name == Head(names)
        i == findIndex(current.children, name)
        next == find(current.children, name)
    IN  IF isDir(next)
        THEN LET rest == ensureReduce(next, Tail(names))
             IN  [node |-> [current EXCEPT !.children[i] = rest.node],
                  events |-> rest.events,
                  err |-> rest.err]
        ELSE IF isFile(next)
        THEN [node |-> current, events |-> <<>>, err |-> ErrFileIsNotDir]
        ELSE LET newDir == Directory(name, accumulatedPath(current, name), <<>>)
                 rest == ensureReduce(newDir, Tail(names))
             IN  [node |-> [current EXCEPT !.children = Append(@, rest.node)],
                  events |-> <<directoryCreated(newDir.fullPath)>> \o rest.events,
                  err |-> rest.err]

ensureDirectorySync(r, fullPath) ==
    IF isIgnored(fullPath) THEN Result(r, <<>>, ErrReadWriteIgnored, Undefined)
    ELSE LET walk == ensureReduce(r, getPathNodes(fullPath))
         IN  Result(walk.node, walk.events, walk.err, Undefined)

(* ----------------------------- saveFileSync --------------------------- *)

\* every save of an existing file counts as a change
contentDiffers_always(existingChild, newContent) == TRUE

\* the assignment to existingChild.content is missing
withContent_unassigned(children, i, newContent) == children

\* existingChild.content !== newContent
contentDiffers(existingChild, newContent) == existingChild.content # newContent

\* existingChild.content = newContent, existingChild being children[i]
withContent(children, i, newContent) ==
    [children EXCEPT ![i].content = newContent]

\* saveFileSync, from the split of the path on
saveLegalPath(r, fullPath, newContent) ==
    LET nodes == getPathNodes(fullPath)
    IN  IF nodes = <<>> THEN Result(r, <<>>, ErrRootFileName, Undefined)
        ELSE
        LET name == Last(nodes)
            pathArr == Front(nodes)
            ensured == ensureDirectorySync(r, join(pathArr, pathSeparator))
        IN  IF ensured.err # None THEN ensured
            ELSE
            LET parent == getPathTarget(ensured.root, pathArr)
            IN  IF parent = Null
                THEN Result(ensured.root, ensured.events, ErrUnexpected, Undefined)
                ELSE
                LET existingChild == find(parent.children, name)
                    i == findIndex(parent.children, name)
                IN  IF isDir(existingChild)
                    THEN Result(ensured.root, ensured.events, ErrFileSave, Undefined)
                    ELSE IF isFile(existingChild)
                    THEN IF contentDiffers(existingChild, newContent)
                         THEN Result(
                                setChildren(ensured.root, pathArr,
                                    withContent(parent.children, i, newContent)),
                                Append(ensured.events, fileChanged(fullPath, newContent)),
                                None, Undefined)
                         ELSE Result(ensured.root, ensured.events, None, Undefined)
                    ELSE Result(
                           setChildren(ensured.root, pathArr,
                               Append(parent.children, File(name, fullPath, newContent))),
                           Append(ensured.events, fileCreated(fullPath, newContent)),
                           None, Undefined)

\* the ignore check comes after the work instead of before it
saveFileSync_checksLate(r, fullPath, newContent) ==
    LET saved == saveLegalPath(r, fullPath, newContent)
    IN  IF isIgnored(fullPath)
        THEN Result(saved.root, saved.events, ErrSaveIgnored, Undefined)
        ELSE saved

saveFileSync(r, fullPath, newContent) ==
    IF isIgnored(fullPath) THEN Result(r, <<>>, ErrSaveIgnored, Undefined)
    ELSE saveLegalPath(r, fullPath, newContent)

(* ------------------------ deleteFile, deleteDirectory ----------------- *)

\* children.filter(({name}) => name !== removed)
withoutName(children, removed) ==
    SelectSeq(children, LAMBDA child : child.name # removed)

\* the deletions do not ask isIgnored
canDelete_unfiltered(parent, fullPath) == isDir(parent)

\* a non-empty directory is never refused
refusesNonEmpty_never(recursive, node) == FALSE

\* a deletion of a missing target throws
nothingToDelete_throws(r) == Result(r, <<>>, ErrCannotFind, Undefined)

\* isDir(parent) && !this.isIgnored(fullPath)
canDelete(parent, fullPath) == isDir(parent) /\ ~isIgnored(fullPath)

\* !recursive && node.children.length
refusesNonEmpty(recursive, node) == ~recursive /\ Len(node.children) # 0

\* neither branch is taken: the call returns and has done nothing
nothingToDelete(r) == Result(r, <<>>, None, Undefined)

\* a directory in the place of the file is left alone without an error
refusesDirectory_silently(r) == Result(r, <<>>, None, Undefined)

\* throw new Error('Directory is not a file')
refusesDirectory(r) == Result(r, <<>>, ErrDirIsNotFile, Undefined)

deleteFileSync(r, fullPath) ==
    LET pathArr == getPathNodes(fullPath)
        parent == IF Len(pathArr) > 0 THEN getPathTarget(r, Front(pathArr)) ELSE Null
    IN  IF canDelete(parent, fullPath)
        THEN LET node == find(parent.children, Last(pathArr))
             IN  IF isFile(node)
                 THEN Result(
                        setChildren(r, Front(pathArr),
                            withoutName(parent.children, node.name)),
                        <<fileDeleted(fullPath)>>, None, Undefined)
                 ELSE IF isDir(node)
                 THEN refusesDirectory(r)
                 ELSE nothingToDelete(r)
        ELSE nothingToDelete(r)

RECURSIVE recursiveEmitDeletion(_)
RECURSIVE emitDeletionOfChildren(_)
\* node.children.forEach(...): the events of the children, in their order
emitDeletionOfChildren(children) ==
    IF children = <<>> THEN <<>>
    ELSE LET child == Head(children)
         IN  (IF isDir(child) THEN recursiveEmitDeletion(child) ELSE <<>>)
             \o <<fileDeleted(child.fullPath)>>
             \o emitDeletionOfChildren(Tail(children))

recursiveEmitDeletion(node) ==
    <<directoryDeleted(node.fullPath)>> \o emitDeletionOfChildren(node.children)

\* deleteDirectorySync, past its check of the root
deleteNamedDirectory(r, fullPath, recursive) ==
    LET pathArr == getPathNodes(fullPath)
        parent == getPathTarget(r, Front(pathArr))
    IN  IF canDelete(parent, fullPath)
        THEN LET node == find(parent.children, Last(pathArr))
             IN  IF isFile(node)
                 THEN Result(r, <<>>, ErrFileIsNotDir, Undefined)
                 ELSE IF isDir(node)
                 THEN IF refusesNonEmpty(recursive, node)
                      THEN Result(r, <<>>, ErrNotEmpty, Undefined)
                      ELSE Result(
                             setChildren(r, Front(pathArr),
                                 withoutName(parent.children, node.name)),
                             recursiveEmitDeletion(node), None, Undefined)
                 ELSE nothingToDelete(r)
        ELSE nothingToDelete(r)

\* the check of the root is missing: no child of the root has no name
deleteDirectorySync_rootUnchecked(r, fullPath, recursive) ==
    IF Len(getPathNodes(fullPath)) = 0 THEN nothingToDelete(r)
    ELSE deleteNamedDirectory(r, fullPath, recursive)

deleteDirectorySync(r, fullPath, recursive) ==
    IF Len(getPathNodes(fullPath)) = 0
    THEN Result(r, <<>>, ErrDeleteRoot, Undefined)
    ELSE deleteNamedDirectory(r, fullPath, recursive)

(* -------------------------------- reads ------------------------------- *)

\* the read leaves an empty file behind where it found none
loadTextFileSync_touching(r, fullPath) ==
    LET saved == saveFileSync(r, fullPath, "")
    IN  Result(saved.root, saved.events, saved.err,
               IF saved.err = None THEN "" ELSE Undefined)

loadTextFileSync(r, fullPath) ==
    IF isIgnored(fullPath) THEN Result(r, <<>>, ErrReadIgnored, Undefined)
    ELSE
    LET pathArr == getPathNodes(fullPath)
        parent == IF Len(pathArr) > 0 THEN getPathTarget(r, Front(pathArr)) ELSE Null
        node == IF isDir(parent) THEN find(parent.children, Last(pathArr)) ELSE Null
    IN  IF isDir(parent) /\ isFile(node)
        THEN Result(r, <<>>, None,
                    IF node.content \in {"", Undefined} THEN "" ELSE node.content)
        ELSE IF isDir(parent) /\ isDir(node)
        THEN Result(r, <<>>, ErrFileIsDir, Undefined)
        ELSE Result(r, <<>>, ErrCannotFind, Undefined)

RECURSIVE parseTree(_)
RECURSIVE parseChildren(_)
\* node.children.map(...)
parseChildren(children) ==
    IF children = <<>> THEN <<>>
    ELSE LET child == Head(children)
         IN  <<IF isDir(child) THEN parseTree(child)
                ELSE File(child.name, child.fullPath, Undefined)>>
             \o parseChildren(Tail(children))

parseTree(node) == Directory(node.name, node.fullPath, parseChildren(node.children))

loadDirectoryTreeSync(r, fullPath) ==
    IF isIgnored(fullPath) THEN Result(r, <<>>, ErrReadIgnored, Undefined)
    ELSE
    LET pathArr == getPathNodes(fullPath)
        dir == IF Len(pathArr) > 0 THEN getPathTarget(r, pathArr) ELSE r
    IN  IF dir = Null THEN Result(r, <<>>, ErrReadFolder, Undefined)
        ELSE Result(r, <<>>, None, parseTree(dir))

\* dir.children.map(...)
shallowChildren(children) ==
    [i \in 1..Len(children) |->
        IF isDir(children[i])
        THEN ShallowDirectory(children[i].name, children[i].fullPath)
        ELSE File(children[i].name, children[i].fullPath, Undefined)]

loadDirectoryChildrenSync(r, fullPath) ==
    IF isIgnored(fullPath) THEN Result(r, <<>>, ErrReadIgnored, Undefined)
    ELSE
    LET pathArr == getPathNodes(fullPath)
        dir == IF Len(pathArr) > 0 THEN getPathTarget(r, pathArr) ELSE r
    IN  IF dir = Null THEN Result(r, <<>>, ErrReadFolder, Undefined)
        ELSE Result(r, <<>>, None, shallowChildren(dir.children))

(* ---------------- LocalFileSystemCrudOnly.deleteFile ------------------- *)

ErrNotAFile == "not a file"

\* LocalFileSystemCrudOnly.deleteFile(relPath) on a disk that holds the tree
\* `disk` under baseUrl.  access() and stat() of a path answer for the node
\* the path's names lead to (baseUrl itself for no names) and throw, which is
\* caught, when there is none; remove() unlinks the file.
crudDeleteFile(disk, relPath) ==
    IF relPath = <<>> THEN Result(disk, <<>>, ErrDeleteRoot, Undefined)
    ELSE IF ~isIgnored(relPath)
    THEN LET names == getPathNodes(relPath)
             parent == IF names = <<>> THEN Null ELSE getPathTarget(disk, Front(names))
             stats == IF names = <<>> THEN disk
                      ELSE IF parent = Null THEN Null
                      ELSE find(parent.children, Last(names))
         IN  IF stats # Null
             THEN IF isFile(stats)
                  THEN Result(setChildren(disk, Front(names),
                                  withoutName(parent.children, stats.name)),
                              <<>>, None, Undefined)
                  ELSE Result(disk, <<>>, ErrNotAFile, Undefined)
             ELSE Result(disk, <<>>, None, Undefined)
    ELSE Result(disk, <<>>, None, Undefined)

(* ----------------- the deadline proxy: its state ---------------------- *)

\* the calls made through one TimeoutFileSystem that the model follows
MaxCalls == 2

CallIds == 1..MaxCalls

\* the operations of the contract
ProxyOps ==
    {"ensureDirectory", "saveFile", "deleteFile", "deleteDirectory",
     "loadTextFile", "loadDirectoryTree", "stat"}

\* the operations that change the wrapped implementation and emit an event
Mutating == {"ensureDirectory", "saveFile", "deleteFile", "deleteDirectory"}

VARIABLES
    proxied,   \* per call through the proxy: [op, invoked, inner, timer, caller, order]
    applied,   \* the mutations the wrapped implementation has applied, in order
    heard      \* the events a subscriber registered through the proxy was handed

proxyVars == <<proxied, applied, heard>>

\* a promise: pending, or settled with a value or an error message
Pending == [state |-> "pending", value |-> "none"]
Resolved(value) == [state |-> "resolved", value |-> value]
Rejected(message) == [state |-> "rejected", value |-> message]

\* the message of the Timeout error
ErrTimedOut == "timed out"

\* a call that has not been made
NotCalled ==
    [op |-> "none", invoked |-> 0, inner |-> Pending, timer |-> "none",
     caller |-> Pending, order |-> <<>>]

\* no call has been made through the proxy
ProxyAtRest ==
    /\ proxied = [id \in CallIds |-> NotCalled]
    /\ applied = <<>>
    /\ heard = <<>>

(* -------------------- the RPC bridge: its state ----------------------- *)

\* the events the store behind the server emits in a run
MaxEmitted == 3

\* the clients of one server and realm
Clients == {1, 2}

VARIABLES
    emitted,   \* the events the store behind the server has emitted, in order
    conn,      \* per client: "new", "connecting", "ready", "closed", "errored"
    since,     \* per client: how many events were emitted when its init() completed
    channel,   \* per client: the events published to it and not yet delivered
    received   \* per client: the events it has re-emitted, in order

bridgeVars == <<emitted, conn, since, channel, received>>

\* the remote calls made on one client that the model follows
MaxRemoteCalls == 2

RemoteCallIds == 1..MaxRemoteCalls

VARIABLES
    inited,    \* per client: the promise its init() returned
    remote     \* per client and call: the promise the call returned, NotMade before

clientVars == <<inited, remote>>

\* the message of the ConnectionError
ErrConnection == "ConnectionError"

\* a remote call that has not been made
NotMade == [state |-> "none", value |-> "none"]

\* no init() has been called and no remote call made
ClientsAtRest ==
    /\ inited = [c \in Clients |-> NotMade]
    /\ remote = [c \in Clients |-> [k \in RemoteCallIds |-> NotMade]]

\* no client has been constructed and the store has emitted nothing
BridgeAtRest ==
    /\ emitted = <<>>
    /\ conn = [c \in Clients |-> "new"]
    /\ since = [c \in Clients |-> 0]
    /\ channel = [c \in Clients |-> <<>>]
    /\ received = [c \in Clients |-> <<>>]

(* ------------------- re-entrant calls: their state -------------------- *)

VARIABLES
    walk       \* the call in progress while a subscriber may call back into the
               \* store: [names, at, attached, cur, seen, done]

\* no call is in progress
NoWalk ==
    [names |-> <<>>, at |-> <<>>, attached |-> TRUE, cur |-> Null,
     seen |-> <<>>, done |-> FALSE]

(* ------------------------------ the calls ----------------------------- *)

Call(op, fullPath, newContent, recursive) ==
    [op |-> op, fullPath |-> fullPath, newContent |-> newContent,
     recursive |-> recursive]

NoCall == Call("none", <<>>, Undefined, FALSE)

\* what the promise of a call settles with: the error it is rejected with,
\* or the value it is resolved with and which kind of value that is
Outcome(c, res) ==
    [err |-> res.err,
     type |-> IF res.err = None
                 /\ c.op \in {"loadTextFile", "loadDirectoryTree",
                              "loadDirectoryChildren"}
              THEN c.op ELSE "undefined",
     ret |-> res.ret]

NoOutcome == [err |-> None, type |-> "undefined", ret |-> Undefined]

Init ==
    /\ root = Directory(<<>>, <<>>, <<>>)
    /\ ignored \in SUBSET Ignorable
    /\ pc = "idle"
    /\ call = NoCall
    /\ pre = root
    /\ events = <<>>
    /\ outcome = NoOutcome
    /\ ProxyAtRest
    /\ BridgeAtRest
    /\ ClientsAtRest
    /\ walk = NoWalk

\* the promise settles in the turn of the call, and the core, with its
\* events, is left for later
Run_settledFirst(c, res) ==
    /\ pc = "idle"
    /\ NodeCount(res.root) <= MaxNodes + 1
    /\ root' = res.root
    /\ pre' = root
    /\ call' = c
    /\ events' = res.events
    /\ outcome' = Outcome(c, res)
    /\ pc' = IF res.events = <<>> THEN "settling" ELSE "idle"
    /\ UNCHANGED <<ignored, proxyVars, bridgeVars, clientVars, walk>>

\* Promise.try(() => core): the core runs to its end in one turn, mutating the
\* tree and emitting its events; the promise it settles is delivered later
Run(c, res) ==
    /\ pc = "idle"
    /\ NodeCount(res.root) <= MaxNodes + 1
    /\ root' = res.root
    /\ pre' = root
    /\ call' = c
    /\ events' = res.events
    /\ outcome' = Outcome(c, res)
    /\ pc' = "settling"
    /\ UNCHANGED <<ignored, proxyVars, bridgeVars, clientVars, walk>>

saveFile ==
    \E fullPath \in Paths, newContent \in Contents :
        Run(Call("saveFile", fullPath, newContent, FALSE),
            saveFileSync(root, fullPath, newContent))

deleteFile ==
    \E fullPath \in Paths :
        Run(Call("deleteFile", fullPath, Undefined, FALSE),
            deleteFileSync(root, fullPath))

deleteDirectory ==
    \E fullPath \in Paths, recursive \in BOOLEAN :
        Run(Call("deleteDirectory", fullPath, Undefined, recursive),
            deleteDirectorySync(root, fullPath, recursive))

ensureDirectory ==
    \E fullPath \in Paths :
        Run(Call("ensureDirectory", fullPath, Undefined, FALSE),
            ensureDirectorySync(root, fullPath))

loadTextFile ==
    \E fullPath \in Paths :
        Run(Call("loadTextFile", fullPath, Undefined, FALSE),
            loadTextFileSync(root, fullPath))

loadDirectoryTree ==
    \E fullPath \in Paths :
        Run(Call("loadDirectoryTree", fullPath, Undefined, FALSE),
            loadDirectoryTreeSync(root, fullPath))

loadDirectoryChildren ==
    \E fullPath \in Paths :
        Run(Call("loadDirectoryChildren", fullPath, Undefined, FALSE),
            loadDirectoryChildrenSync(root, fullPath))

\* the promise of the call settles: its outcome is handed to the caller
Settle ==
    /\ pc = "settling"
    /\ pc' = "idle"
    /\ call' = NoCall
    /\ pre' = root
    /\ events' = <<>>
    /\ outcome' = NoOutcome
    /\ UNCHANGED <<root, ignored, proxyVars, bridgeVars, clientVars, walk>>

Next ==
    \/ saveFile
    \/ deleteFile
    \/ deleteDirectory
    \/ ensureDirectory
    \/ loadTextFile
    \/ loadDirectoryTree
    \/ loadDirectoryChildren
    \/ Settle

Spec == Init /\ [][Next]_vars

\* a settled promise is delivered in a later turn of the event loop, which
\* comes: the settlement of a call whose core has run is not put off forever
FairSpec == Spec /\ WF_pc(Settle)

(* ------------------------- the deadline proxy ------------------------- *)

\* what the wrapped operation of a call settles with
InnerOutcomes == {Resolved("result"), Rejected("inner error")}

\* the event the wrapped implementation emits for a mutation
changeOf(id, op) == [type |-> op, call |-> id]

\* a call through the proxy: the wrapped operation is started, once, and the
\* timer is scheduled
ProxyCall(id, op) ==
    /\ proxied[id].op = "none"
    /\ proxied' = [proxied EXCEPT ![id] =
           [op |-> op, invoked |-> 1, inner |-> Pending, timer |-> "armed",
            caller |-> Pending, order |-> <<>>]]
    /\ UNCHANGED <<applied, heard>>

\* the timer fires and the wrapped operation is given up: it never settles
TimerFires_cancelling(id) ==
    /\ proxied[id].timer = "armed"
    /\ proxied' = [proxied EXCEPT ![id] =
           [@ EXCEPT !.timer = "fired",
                     !.inner = [state |-> "cancelled", value |-> "none"],
                     !.caller = Rejected(ErrTimedOut),
                     !.order = Append(@, "caller")]]
    /\ UNCHANGED <<applied, heard>>

\* the timer fires and the caller is left waiting for the wrapped operation
TimerFires_waiting(id) ==
    /\ proxied[id].timer = "armed"
    /\ proxied' = [proxied EXCEPT ![id] = [@ EXCEPT !.timer = "fired"]]
    /\ UNCHANGED <<applied, heard>>

\* the timer fires first: the call is rejected with Timeout; the wrapped
\* operation is left running
TimerFires(id) ==
    /\ proxied[id].timer = "armed"
    /\ proxied' = [proxied EXCEPT ![id] =
           [@ EXCEPT !.timer = "fired",
                     !.caller = Rejected(ErrTimedOut),
                     !.order = Append(@, "caller")]]
    /\ UNCHANGED <<applied, heard>>

\* the call takes the outcome of the wrapped operation whenever it comes
relayed_again(p, how) ==
    [p EXCEPT !.inner = how, !.caller = how,
              !.timer = IF @ = "armed" THEN "cleared" ELSE @,
              !.order = Append(@, "inner") \o <<"caller">>]

\* the call, if it is still pending, takes the outcome of the wrapped
\* operation as it is, and the timer is cleared
relayed(p, how) ==
    IF p.caller = Pending
    THEN [p EXCEPT !.inner = how, !.timer = "cleared", !.caller = how,
                   !.order = Append(@, "inner") \o <<"caller">>]
    ELSE [p EXCEPT !.inner = how, !.order = Append(@, "inner")]

\* the wrapped operation settles: a mutation that succeeds is applied and its
\* event is handed to the subscribers, whom the proxy passes through
InnerSettles(id, how) ==
    /\ proxied[id].op # "none"
    /\ proxied[id].inner = Pending
    /\ proxied' = [proxied EXCEPT ![id] = relayed(@, how)]
    /\ IF how.state = "resolved" /\ proxied[id].op \in Mutating
       THEN /\ applied' = Append(applied, <<id, proxied[id].op>>)
            /\ heard' = Append(heard, changeOf(id, proxied[id].op))
       ELSE UNCHANGED <<applied, heard>>

ProxyInit == Init /\ ignored = {}

ProxyNext ==
    \/ \E id \in CallIds, op \in ProxyOps :
           ProxyCall(id, op) /\ UNCHANGED <<vars, bridgeVars, clientVars, walk>>
    \/ \E id \in CallIds :
           TimerFires(id) /\ UNCHANGED <<vars, bridgeVars, clientVars, walk>>
    \/ \E id \in CallIds, how \in InnerOutcomes :
           InnerSettles(id, how) /\ UNCHANGED <<vars, bridgeVars, clientVars, walk>>

ProxySpec == ProxyInit /\ [][ProxyNext]_proxyVars

\* the wrapped implementation is one whose operations settle (SlowFs settles
\* after its delay): an operation that can settle is not pending forever
FairProxySpec ==
    ProxySpec /\ \A id \in CallIds :
        WF_proxyVars(\E how \in InnerOutcomes : InnerSettles(id, how))

(* --------------------- the RPC bridge: its events --------------------- *)

\* the events the store behind the server emits
Emittable == {fileCreated(<<"a">>, "x"), fileDeleted(<<"a">>)}

\* the client is constructed and its init() begins to connect
ClientInit(c) ==
    /\ conn[c] = "new"
    /\ conn' = [conn EXCEPT ![c] = "connecting"]
    /\ UNCHANGED <<emitted, since, channel, received>>

\* init() completes: the connection is open and the topic subscribed to
InitCompletes(c) ==
    /\ conn[c] = "connecting"
    /\ conn' = [conn EXCEPT ![c] = "ready"]
    /\ since' = [since EXCEPT ![c] = Len(emitted)]
    /\ UNCHANGED <<emitted, channel, received>>

\* init() fails with a ConnectionError
InitFails(c) ==
    /\ conn[c] = "connecting"
    /\ conn' = [conn EXCEPT ![c] = "errored"]
    /\ UNCHANGED <<emitted, since, channel, received>>

\* the store emits an event and the server, subscribed to it, publishes the
\* event on the topic: one copy travels to each subscribed client
StoreEmits(e) ==
    /\ Len(emitted) < MaxEmitted
    /\ emitted' = Append(emitted, e)
    /\ channel' = [c \in Clients |->
           IF conn[c] = "ready" THEN Append(channel[c], e) ELSE channel[c]]
    /\ UNCHANGED <<conn, since, received>>

\* the client re-emits the newest of the events that reached it
Deliver_newestFirst(c) ==
    /\ conn[c] = "ready"
    /\ channel[c] # <<>>
    /\ received' = [received EXCEPT ![c] = Append(@, channel[c][Len(channel[c])])]
    /\ channel' = [channel EXCEPT ![c] = SubSeq(@, 1, Len(@) - 1)]
    /\ UNCHANGED <<emitted, conn, since>>

\* a published event reaches the client, which re-emits it as it is
Deliver(c) ==
    /\ conn[c] = "ready"
    /\ channel[c] # <<>>
    /\ received' = [received EXCEPT ![c] = Append(@, Head(channel[c]))]
    /\ channel' = [channel EXCEPT ![c] = Tail(@)]
    /\ UNCHANGED <<emitted, conn, since>>

\* the connection ends, closed or dropped: what was on its way is lost
ConnectionEnds(c, how) ==
    /\ conn[c] = "ready"
    /\ conn' = [conn EXCEPT ![c] = how]
    /\ channel' = [channel EXCEPT ![c] = <<>>]
    /\ UNCHANGED <<emitted, since, received>>

BridgeInit == Init /\ ignored = {}

BridgeNext ==
    \/ \E c \in Clients : ClientInit(c) /\ UNCHANGED <<vars, proxyVars, clientVars, walk>>
    \/ \E c \in Clients : InitCompletes(c) /\ UNCHANGED <<vars, proxyVars, clientVars, walk>>
    \/ \E c \in Clients : InitFails(c) /\ UNCHANGED <<vars, proxyVars, clientVars, walk>>
    \/ \E e \in Emittable : StoreEmits(e) /\ UNCHANGED <<vars, proxyVars, clientVars, walk>>
    \/ \E c \in Clients : Deliver(c) /\ UNCHANGED <<vars, proxyVars, clientVars, walk>>
    \/ \E c \in Clients, how \in {"closed", "errored"} :
           ConnectionEnds(c, how) /\ UNCHANGED <<vars, proxyVars, clientVars, walk>>

BridgeSpec == BridgeInit /\ [][BridgeNext]_bridgeVars

\* the channel hands a published event to a subscriber that stays connected
FairBridgeSpec ==
    BridgeSpec /\ \A c \in Clients : WF_bridgeVars(Deliver(c))

(* ------------------ the RPC bridge: its connection -------------------- *)

\* the connection of the client has ended
Ended(c) == conn[c] \in {"closed", "errored"}

\* init() is called on a new client: it returns a promise and connects
InitCalled(c) ==
    /\ ClientInit(c)
    /\ inited' = [inited EXCEPT ![c] = Pending]
    /\ UNCHANGED remote

\* the connection is open and subscribed: init() yields the client
InitResolves(c) ==
    /\ InitCompletes(c)
    /\ inited' = [inited EXCEPT ![c] = Resolved("client")]
    /\ UNCHANGED remote

\* the connection cannot be made: init() fails with a ConnectionError
InitRejects(c) ==
    /\ InitFails(c)
    /\ inited' = [inited EXCEPT ![c] = Rejected(ErrConnection)]
    /\ UNCHANGED remote

\* a contract operation is called on a client that init() has yielded: one
\* remote procedure call is sent
RemoteCall(c, k) ==
    /\ inited[c] = Resolved("client")
    /\ remote[c][k] = NotMade
    /\ remote' = [remote EXCEPT ![c][k] = Pending]
    /\ UNCHANGED <<inited, bridgeVars>>

\* the answer of the server settles the call, whatever became of the
\* connection
ServerReplies_regardless(c, k, how) ==
    /\ remote[c][k] = Pending
    /\ remote' = [remote EXCEPT ![c][k] = how]
    /\ UNCHANGED <<inited, bridgeVars>>

\* the answer of the server reaches the client over the open connection and
\* settles the call with the remote result or the remote error
ServerReplies(c, k, how) ==
    /\ conn[c] = "ready"
    /\ remote[c][k] = Pending
    /\ remote' = [remote EXCEPT ![c][k] = how]
    /\ UNCHANGED <<inited, bridgeVars>>

\* a call pending on a connection that has ended fails with ConnectionError
CallFails(c, k) ==
    /\ Ended(c)
    /\ remote[c][k] = Pending
    /\ remote' = [remote EXCEPT ![c][k] = Rejected(ErrConnection)]
    /\ UNCHANGED <<inited, bridgeVars>>

ClientNext ==
    \/ \E c \in Clients : InitCalled(c) /\ UNCHANGED <<vars, proxyVars, walk>>
    \/ \E c \in Clients : InitResolves(c) /\ UNCHANGED <<vars, proxyVars, walk>>
    \/ \E c \in Clients : InitRejects(c) /\ UNCHANGED <<vars, proxyVars, walk>>
    \/ \E c \in Clients, how \in {"closed", "errored"} :
           ConnectionEnds(c, how) /\ UNCHANGED <<vars, proxyVars, clientVars, walk>>
    \/ \E c \in Clients, k \in RemoteCallIds :
           RemoteCall(c, k) /\ UNCHANGED <<vars, proxyVars, walk>>
    \/ \E c \in Clients, k \in RemoteCallIds, how \in InnerOutcomes :
           ServerReplies(c, k, how) /\ UNCHANGED <<vars, proxyVars, walk>>
    \/ \E c \in Clients, k \in RemoteCallIds :
           CallFails(c, k) /\ UNCHANGED <<vars, proxyVars, walk>>

ClientSpec == BridgeInit /\ [][ClientNext]_<<bridgeVars, clientVars>>

\* the transport tells the client of each call that its connection has
\* ended under
FairClientSpec ==
    ClientSpec /\ \A c \in Clients, k \in RemoteCallIds :
        WF_<<bridgeVars, clientVars>>(CallFails(c, k))

(* -------------------------- re-entrant calls -------------------------- *)

\* The emitter calls its listeners inside emit: a subscriber that calls the
\* store from its callback runs that call's core to its end before the call
\* in progress goes on.  The call in progress is followed step by step:
\* walk.names are the names ensureDirectorySync's reduce has still to visit,
\* walk.at the names it has visited; `current` is an object the reduce holds,
\* which is the directory at walk.at while that object is still in the tree
\* (walk.attached) and the object walk.cur, out of the tree, once a
\* subscriber has removed it.  walk.seen says of each event the call in
\* progress has emitted whether its node was reachable from the root when it
\* was emitted.  The calls a subscriber makes are not followed into the
\* subscribers' reactions to their own events.

\* the call in progress ends: its promise will settle with err
ReEnds(err) ==
    /\ pc' = "settling"
    /\ outcome' = [err |-> err, type |-> "undefined", ret |-> Undefined]
    /\ UNCHANGED <<root, events, walk>>

\* ensureDirectory or saveFile is called with no other call in progress
ReStart(c) ==
    /\ pc = "idle"
    /\ call' = c
    /\ pre' = root
    /\ IF c.op = "ensureDirectory"
       THEN IF isIgnored(c.fullPath)
            THEN ReEnds(ErrReadWriteIgnored)
            ELSE /\ pc' = "walking"
                 /\ walk' = [NoWalk EXCEPT !.names = getPathNodes(c.fullPath)]
                 /\ UNCHANGED <<root, events, outcome>>
       ELSE LET nodes == getPathNodes(c.fullPath)
            IN  IF isIgnored(c.fullPath) THEN ReEnds(ErrSaveIgnored)
                ELSE IF nodes = <<>> THEN ReEnds(ErrRootFileName)
                ELSE IF isIgnored(join(Front(nodes), pathSeparator))
                THEN ReEnds(ErrReadWriteIgnored)
                ELSE /\ pc' = "walking"
                     /\ walk' = [NoWalk EXCEPT !.names = Front(nodes)]
                     /\ UNCHANGED <<root, events, outcome>>
    /\ UNCHANGED <<ignored, proxyVars, bridgeVars, clientVars>>

\* one turn of the reduce of ensureDirectorySync
ReWalk ==
    /\ pc = "walking"
    /\ walk.names # <<>>
    /\ LET name == Head(walk.names)
           current == IF walk.attached THEN getPathTarget(root, walk.at)
                      ELSE walk.cur
           next == find(current.children, name)
           newDir == Directory(name, accumulatedPath(current, name), <<>>)
       IN  IF isDir(next)
           THEN /\ walk' = [walk EXCEPT !.names = Tail(@),
                                        !.at = Append(@, name),
                                        !.cur = IF walk.attached THEN Null ELSE next]
                /\ UNCHANGED <<root, events, pc, outcome>>
           ELSE IF isFile(next)
           THEN ReEnds(ErrFileIsNotDir)
           ELSE /\ NodeCount(root) <= MaxNodes
                /\ root' = IF walk.attached
                           THEN setChildren(root, walk.at,
                                    Append(current.children, newDir))
                           ELSE root
                /\ events' = Append(events, directoryCreated(newDir.fullPath))
                /\ walk' = [walk EXCEPT !.names = Tail(@),
                                        !.at = Append(@, name),
                                        !.cur = IF walk.attached THEN Null ELSE newDir,
                                        !.seen = Append(@, walk.attached)]
                /\ pc' = "listening"
                /\ UNCHANGED outcome
    /\ UNCHANGED <<call, pre, ignored, proxyVars, bridgeVars, clientVars>>

\* saveFileSync after ensureDirectorySync has returned
ReSave ==
    /\ pc = "walking"
    /\ walk.names = <<>>
    /\ call.op = "saveFile"
    /\ LET nodes == getPathNodes(call.fullPath)
           name == Last(nodes)
           pathArr == Front(nodes)
           parent == getPathTarget(root, pathArr)
           existingChild == IF parent = Null THEN Null ELSE find(parent.children, name)
           i == IF parent = Null THEN 0 ELSE findIndex(parent.children, name)
       IN  IF parent = Null THEN ReEnds(ErrUnexpected)
           ELSE IF isDir(existingChild) THEN ReEnds(ErrFileSave)
           ELSE IF isFile(existingChild) /\ ~contentDiffers(existingChild, call.newContent)
           THEN ReEnds(None)
           ELSE /\ isFile(existingChild) \/ NodeCount(root) <= MaxNodes
                /\ root' = setChildren(root, pathArr,
                               IF isFile(existingChild)
                               THEN withContent(parent.children, i, call.newContent)
                               ELSE Append(parent.children,
                                        File(name, call.fullPath, call.newContent)))
                /\ events' = Append(events,
                               IF isFile(existingChild)
                               THEN fileChanged(call.fullPath, call.newContent)
                               ELSE fileCreated(call.fullPath, call.newContent))
                /\ walk' = [walk EXCEPT !.seen = Append(@, TRUE), !.done = TRUE]
                /\ pc' = "listening"
                /\ UNCHANGED outcome
    /\ UNCHANGED <<call, pre, ignored, proxyVars, bridgeVars, clientVars>>

\* ensureDirectorySync returns to its caller ensureDirectory
ReReturn ==
    /\ pc = "walking"
    /\ walk.names = <<>>
    /\ call.op = "ensureDirectory"
    /\ ReEnds(None)
    /\ UNCHANGED <<call, pre, ignored, proxyVars, bridgeVars, clientVars>>

\* emit returns: what the subscriber did, if anything, has left the tree as
\* res.root, and the object the reduce holds is in the tree or is not
Listened(res) ==
    /\ pc = "listening"
    /\ NodeCount(res.root) <= MaxNodes + 1
    /\ root' = res.root
    /\ IF walk.done
       THEN /\ pc' = "settling"
            /\ outcome' = [err |-> None, type |-> "undefined", ret |-> Undefined]
            /\ UNCHANGED walk
       ELSE /\ pc' = "walking"
            /\ walk' =
                 IF walk.attached /\ ~isDir(getPathTarget(res.root, walk.at))
                 THEN [walk EXCEPT !.attached = FALSE,
                                   !.cur = getPathTarget(root, walk.at)]
                 ELSE walk
            /\ UNCHANGED outcome
    /\ UNCHANGED <<call, pre, events, ignored, proxyVars, bridgeVars, clientVars>>

\* no subscriber calls the store
ListenerIdle == Listened(Result(root, <<>>, None, Undefined))

ListenerDeletesDirectory ==
    \E fullPath \in Paths, recursive \in BOOLEAN :
        Listened(deleteDirectorySync(root, fullPath, recursive))

ListenerDeletesFile ==
    \E fullPath \in Paths : Listened(deleteFileSync(root, fullPath))

ListenerEnsures ==
    \E fullPath \in Paths : Listened(ensureDirectorySync(root, fullPath))

ListenerSaves ==
    \E fullPath \in Paths, newContent \in Contents :
        Listened(saveFileSync(root, fullPath, newContent))

\* the promise of the call in progress settles
ReSettle ==
    /\ pc = "settling"
    /\ pc' = "idle"
    /\ call' = NoCall
    /\ pre' = root
    /\ events' = <<>>
    /\ outcome' = NoOutcome
    /\ walk' = NoWalk
    /\ UNCHANGED <<root, ignored, proxyVars, bridgeVars, clientVars>>

ReentrantInit == Init /\ ignored = {}

ReentrantNext ==
    \/ \E fullPath \in Paths :
           ReStart(Call("ensureDirectory", fullPath, Undefined, FALSE))
    \/ \E fullPath \in Paths, newContent \in Contents :
           ReStart(Call("saveFile", fullPath, newContent, FALSE))
    \/ ReWalk
    \/ ReSave
    \/ ReReturn
    \/ ListenerIdle
    \/ ListenerDeletesDirectory
    \/ ListenerDeletesFile
    \/ ListenerEnsures
    \/ ListenerSaves
    \/ ReSettle

ReentrantSpec == ReentrantInit /\ [][ReentrantNext]_<<vars, walk>>

(* ------------------- what the properties speak of --------------------- *)

\* a call's core has run and the call is the operation op
Ran(op) == pc = "settling" /\ call.op = op

Succeeded(op) == Ran(op) /\ outcome.err = None

Failed(op) == Ran(op) /\ outcome.err # None

\* the node of tree r that the names lead to: the root for no names, Null
\* when there is none
RECURSIVE nodeAt(_, _)
nodeAt(r, names) ==
    IF names = <<>> THEN r
    ELSE IF ~isDir(r) THEN Null
    ELSE LET i == CHOOSE k \in 0..Len(r.children) :
                      /\ k # 0 => r.children[k].name = Head(names)
                      /\ \A j \in 1..Len(r.children) :
                             r.children[j].name = Head(names) => k # 0 /\ k <= j
         IN  IF i = 0 THEN Null ELSE nodeAt(r.children[i], Tail(names))

Prefix(names, k) == SubSeq(names, 1, k)

RECURSIVE createdFrom(_, _, _)
\* one directoryCreated, carrying the accumulated path, for each of the first
\* n names from the k-th on that leads to no node of tree r, root to leaf
createdFrom(r, names, k) ==
    IF k > Len(names) THEN <<>>
    ELSE (IF nodeAt(r, Prefix(names, k)) = Null
          THEN <<directoryCreated(join(Prefix(names, k), pathSeparator))>>
          ELSE <<>>)
         \o createdFrom(r, names, k + 1)

createdFor(r, names) == createdFrom(r, names, 1)

(* --------------------------------- C1 --------------------------------- *)

\* C1: round trip.  In every reachable state in which saveFile(p, c) has just
\* succeeded (p not ignored and not the root, c any content, the empty
\* string included), loadTextFile(p) returns exactly c.
C1_RoundTrip ==
    Succeeded("saveFile") =>
        LET loaded == loadTextFileSync(root, call.fullPath)
        IN  /\ ~isIgnored(call.fullPath)
            /\ getPathNodes(call.fullPath) # <<>>
            /\ loaded.err = None
            /\ loaded.ret = call.newContent

\* a save of the empty string over a file that held other content, below a
\* directory, has succeeded
C1_Witness ==
    /\ Succeeded("saveFile")
    /\ call.newContent = ""
    /\ Len(getPathNodes(call.fullPath)) = 2
    /\ isFile(nodeAt(pre, getPathNodes(call.fullPath)))
    /\ nodeAt(pre, getPathNodes(call.fullPath)).content = "x"

(* --------------------------------- C2 --------------------------------- *)

\* C2: the events of a successful saveFile(p, c) follow the prior state of p.
\* No node at p: the file is created and the events are one directoryCreated
\* per missing ancestor, root to leaf, then one fileCreated for p.  A file at
\* p with other content: the content is updated and the only event is one
\* fileChanged.  A file at p with the same content: nothing changes and there
\* is no event.
C2_SaveEvents ==
    Succeeded("saveFile") =>
        LET names == getPathNodes(call.fullPath)
            prior == nodeAt(pre, names)
            now == nodeAt(root, names)
        IN  /\ prior = Null =>
                /\ events = Append(createdFor(pre, Front(names)),
                                   fileCreated(call.fullPath, call.newContent))
                /\ isFile(now) /\ now.content = call.newContent
            /\ (isFile(prior) /\ prior.content # call.newContent) =>
                /\ events = <<fileChanged(call.fullPath, call.newContent)>>
                /\ isFile(now) /\ now.content = call.newContent
            /\ (isFile(prior) /\ prior.content = call.newContent) =>
                /\ events = <<>>
                /\ root = pre
            /\ ~isDir(prior)

\* a save has created a file and its missing parent directory
C2_WitnessCreated ==
    /\ Succeeded("saveFile")
    /\ Len(events) = 2
    /\ events[1].type = "directoryCreated"
    /\ events[2].type = "fileCreated"

\* a save has changed a file, and another has found the content it saves
C2_WitnessChanged ==
    /\ Succeeded("saveFile")
    /\ isFile(nodeAt(pre, getPathNodes(call.fullPath)))
    /\ nodeAt(pre, getPathNodes(call.fullPath)).content # call.newContent

C2_WitnessSame ==
    /\ Succeeded("saveFile")
    /\ isFile(nodeAt(pre, getPathNodes(call.fullPath)))
    /\ nodeAt(pre, getPathNodes(call.fullPath)).content = call.newContent

(* --------------------------------- C3 --------------------------------- *)

\* ensureDirectory(p) on tree r succeeds, changes nothing and emits nothing
EnsureIsNoOp(r, p) ==
    LET again == ensureDirectorySync(r, p)
    IN  again.err = None /\ again.root = r /\ again.events = <<>>

\* C3: ensureDirectory is idempotent.  A successful ensureDirectory(p) emits
\* one directoryCreated, carrying the accumulated path, for each segment of p
\* that did not exist, root to leaf, and none for a segment that did; after
\* it every segment of p is a directory.  While every segment of a path p
\* that is not ignored is a directory, ensureDirectory(p) succeeds, leaves the
\* tree unchanged and emits no event (stated of the tree between calls, which
\* is every tree the store has); and a call that is not a deletion leaves
\* every directory in place.
C3_EnsureIdempotent ==
    /\ Succeeded("ensureDirectory") =>
        /\ events = createdFor(pre, getPathNodes(call.fullPath))
        /\ isDir(nodeAt(root, getPathNodes(call.fullPath)))
        /\ EnsureIsNoOp(root, call.fullPath)
    /\ pc = "idle" =>
        \A p \in Paths :
            (~isIgnored(p) /\ isDir(nodeAt(root, getPathNodes(p))))
                => EnsureIsNoOp(root, p)
    /\ ( /\ pc = "settling"
         /\ call.op \notin {"deleteFile", "deleteDirectory"}
         /\ root # pre ) =>
        \A p \in Paths :
            isDir(nodeAt(pre, getPathNodes(p)))
                => isDir(nodeAt(root, getPathNodes(p)))

\* an ensureDirectory of a two-segment path has created the second segment
\* under a first segment that was there
C3_Witness ==
    /\ Succeeded("ensureDirectory")
    /\ Len(getPathNodes(call.fullPath)) = 2
    /\ Len(events) = 1
    /\ isDir(nodeAt(pre, Prefix(getPathNodes(call.fullPath), 1)))

\* an ensureDirectory of a directory that was there has succeeded
C3_WitnessRepeated ==
    /\ Succeeded("ensureDirectory")
    /\ getPathNodes(call.fullPath) # <<>>
    /\ isDir(nodeAt(pre, getPathNodes(call.fullPath)))
    /\ events = <<>>

(* --------------------------------- C4 --------------------------------- *)

RECURSIVE subtreeNodes(_)
\* the nodes of a subtree, its top included
subtreeNodes(node) ==
    IF isDir(node)
    THEN {node} \cup UNION {subtreeNodes(node.children[i]) : i \in 1..Len(node.children)}
    ELSE {node}

\* the nodes below a directory
descendants(node) ==
    UNION {subtreeNodes(node.children[i]) : i \in 1..Len(node.children)}

RECURSIVE withoutSubtree(_, _)
\* tree r without the node the names lead to, every other node as it is
withoutSubtree(r, names) ==
    LET i == CHOOSE k \in 1..Len(r.children) :
                 /\ r.children[k].name = Head(names)
                 /\ \A j \in 1..(k - 1) : r.children[j].name # Head(names)
    IN  IF Len(names) = 1
        THEN [r EXCEPT !.children =
                 SubSeq(@, 1, i - 1) \o SubSeq(@, i + 1, Len(@))]
        ELSE [r EXCEPT !.children[i] = withoutSubtree(@, Tail(names))]

\* deleteDirectory was called on a directory that had at least one child
DeletedNonEmpty ==
    /\ Ran("deleteDirectory")
    /\ getPathNodes(call.fullPath) # <<>>
    /\ isDir(nodeAt(pre, getPathNodes(call.fullPath)))
    /\ Len(nodeAt(pre, getPathNodes(call.fullPath)).children) >= 1

\* what C4 says of such a call
GuardsDeletion ==
    LET names == getPathNodes(call.fullPath)
    IN  /\ ~call.recursive =>
            /\ outcome.err = ErrNotEmpty
            /\ root = pre
            /\ events = <<>>
        /\ call.recursive =>
            /\ outcome.err = None
            /\ \A k \in 1..Len(names) :
                   nodeAt(pre, Prefix(names, k)) # Null
            /\ nodeAt(root, names) = Null
            /\ root = withoutSubtree(pre, names)

C4_WitnessRefused ==
    DeletedNonEmpty /\ ~isIgnored(call.fullPath) /\ ~call.recursive

placesOf(e) == {i \in 1..Len(events) : events[i] = e}

\* C5: a successful deleteDirectory(p, recursive) of a directory emits
\* exactly one directoryDeleted for p and for each directory below p, exactly
\* one fileDeleted for each file below p, and no other event (no fileDeleted
\* for a directory); a directory's directoryDeleted comes before every event
\* of a node below it.
C5_DeletionEvents ==
    ( /\ Succeeded("deleteDirectory")
      /\ ~isIgnored(call.fullPath)
      /\ isDir(nodeAt(pre, getPathNodes(call.fullPath))) ) =>
        LET top == nodeAt(pre, getPathNodes(call.fullPath))
            dirs == {n \in subtreeNodes(top) : isDir(n)}
            files == {n \in subtreeNodes(top) : isFile(n)}
        IN  /\ \A d \in dirs :
                   Cardinality(placesOf(directoryDeleted(d.fullPath))) = 1
            /\ \A f \in files :
                   Cardinality(placesOf(fileDeleted(f.fullPath))) = 1
            /\ \A i \in 1..Len(events) :
                   \/ \E d \in dirs : events[i] = directoryDeleted(d.fullPath)
                   \/ \E f \in files : events[i] = fileDeleted(f.fullPath)
            /\ \A d \in dirs : \A n \in descendants(d) :
                   \A i \in placesOf(directoryDeleted(d.fullPath)) :
                       \A j \in 1..Len(events) :
                           events[j].fullPath = n.fullPath => i < j

(* --------------------------------- C6 --------------------------------- *)

\* deleteFile or deleteDirectory was called on a path that is not ignored,
\* is not the root and leads to no node
DeletedMissing ==
    /\ Ran("deleteFile") \/ Ran("deleteDirectory")
    /\ ~isIgnored(call.fullPath)
    /\ getPathNodes(call.fullPath) # <<>>
    /\ nodeAt(pre, getPathNodes(call.fullPath)) = Null

\* C6: deleteFile(p) and deleteDirectory(p, any flag) on a path p that is not
\* ignored, is not the root and at which no node exists (an ancestor may be
\* missing or be a file) succeed, leave the tree unchanged and emit no event.
C6_MissingTarget ==
    DeletedMissing => (outcome.err = None /\ root = pre /\ events = <<>>)

\* the target of a deleteFile was missing below a file
C6_Witness ==
    /\ DeletedMissing
    /\ call.op = "deleteFile"
    /\ Len(getPathNodes(call.fullPath)) = 2
    /\ isFile(nodeAt(pre, Prefix(getPathNodes(call.fullPath), 1)))

\* the target of a recursive deleteDirectory was missing in a directory
C6_WitnessDirectory ==
    /\ DeletedMissing
    /\ call.op = "deleteDirectory"
    /\ call.recursive
    /\ Len(getPathNodes(call.fullPath)) = 2
    /\ isDir(nodeAt(pre, Prefix(getPathNodes(call.fullPath), 1)))

(* --------------------------------- C7 --------------------------------- *)

FailingWhenIgnored ==
    {"saveFile", "ensureDirectory", "loadTextFile", "loadDirectoryTree",
     "loadDirectoryChildren"}

\* a call's core has run on an ignored path
RanOnIgnored == pc = "settling" /\ isIgnored(call.fullPath)

\* C7 as claimed: on an ignored path p, saveFile, ensureDirectory,
\* loadTextFile, loadDirectoryTree and loadDirectoryChildren fail, deleteFile
\* and deleteDirectory succeed, and in every case the tree is unchanged and
\* no event is emitted.
C7_IgnoreEveryEntry_Claimed ==
    RanOnIgnored =>
        /\ root = pre
        /\ events = <<>>
        /\ call.op \in FailingWhenIgnored => outcome.err # None
        /\ call.op \in {"deleteFile", "deleteDirectory"} => outcome.err = None

\* C7 as amended: the same, but deleteFile and deleteDirectory are said to
\* succeed only on an ignored path that does not resolve to the root; on one
\* that does, the rule for the root path comes first, and deleteDirectory
\* fails with "Can't delete root directory".
C7_IgnoreEveryEntry ==
    RanOnIgnored =>
        /\ root = pre
        /\ events = <<>>
        /\ call.op \in FailingWhenIgnored => outcome.err # None
        /\ call.op \in {"deleteFile", "deleteDirectory"} =>
               IF getPathNodes(call.fullPath) # <<>>
               THEN outcome.err = None
               ELSE call.op = "deleteDirectory" => outcome.err = ErrDeleteRoot

\* deleteFile ran on an ignored path at which a file exists
C7_Witness ==
    /\ RanOnIgnored
    /\ call.op = "deleteFile"
    /\ isFile(nodeAt(pre, getPathNodes(call.fullPath)))

\* deleteDirectory ran on an ignored path that resolves to the root
C7_WitnessRoot ==
    /\ RanOnIgnored
    /\ call.op = "deleteDirectory"
    /\ getPathNodes(call.fullPath) = <<>>

(* --------------------------------- C8 --------------------------------- *)

\* C8: the tree loadDirectoryTree returns holds no node whose path the ignore
\* predicate matches (and so none below such a node), however the node came
\* to be, the predicate being any predicate over paths.
C8_IgnoreInvisible ==
    Succeeded("loadDirectoryTree") =>
        \A n \in descendants(outcome.ret) : ~isIgnored(n.fullPath)

(* --------------------------------- C9 --------------------------------- *)

\* C9: a call that ends in an error has changed nothing and emitted nothing;
\* a failed saveFile has created no ancestor directory.
C9_NoPartialFailure ==
    (pc = "settling" /\ outcome.err # None) => (root = pre /\ events = <<>>)

\* a saveFile failed whose parent directory did not exist
C9_Witness ==
    /\ Failed("saveFile")
    /\ Len(getPathNodes(call.fullPath)) = 2
    /\ nodeAt(pre, Prefix(getPathNodes(call.fullPath), 1)) = Null

(* --------------------------------- C10 -------------------------------- *)

\* C10: deleteFile on a path that resolves to the root fails, and does not
\* succeed as a silent no-op, in MemoryFileSystem as in
\* LocalFileSystemCrudOnly.
C10_DeleteFileRoot ==
    (Ran("deleteFile") /\ getPathNodes(call.fullPath) = <<>>) =>
        /\ outcome.err # None
        /\ crudDeleteFile(pre, call.fullPath).err # None

(* --------------------------------- C11 -------------------------------- *)

RECURSIVE storedTree(_)
RECURSIVE storedAll(_)
\* the children of a stored directory that the ignore predicate lets through
storedAll(children) ==
    IF children = <<>> THEN <<>>
    ELSE (IF isIgnored(Head(children).fullPath) THEN <<>>
          ELSE <<storedTree(Head(children))>>)
         \o storedAll(Tail(children))

\* a stored subtree as it is: every directory with its children in their
\* order, every file with the content last saved to it
storedTree(node) ==
    IF isDir(node)
    THEN Directory(node.name, node.fullPath, storedAll(node.children))
    ELSE File(node.name, node.fullPath, node.content)

\* C11: the tree loadDirectoryTree returns is the stored tree below the path
\* asked for: every node it holds is a non-ignored node of the store and the
\* reverse, and every File node in it carries the content last saved to it.
C11_TreeReflectsStore ==
    Succeeded("loadDirectoryTree") =>
        outcome.ret = storedTree(nodeAt(root, getPathNodes(call.fullPath)))

(* --------------------------------- C12 -------------------------------- *)

\* C12: the events of a call are emitted, and so handed to the subscribers,
\* in the turn in which its core runs, which is before its promise settles:
\* whenever events of a call are out, the call has not settled yet, and
\* every call that has emitted an event settles in the end.
C12_EventsBeforeCompletion ==
    [](events # <<>> => (pc = "settling" /\ <>(pc = "idle")))

\* a call has emitted two events and has not settled yet
C12_Witness ==
    /\ pc = "settling"
    /\ Len(events) >= 2

(* --------------------------------- C13 -------------------------------- *)

\* no two children of the directory bear one name
distinctNames(children) ==
    \A i, j \in 1..Len(children) :
        children[i].name = children[j].name => i = j

\* C13: in every state that calls of saveFile, ensureDirectory, deleteFile
\* and deleteDirectory lead to, no directory has two children of one name.
C13_SiblingNames ==
    \A n \in subtreeNodes(root) : isDir(n) => distinctNames(n.children)

\* a save has put a second child beside the first of a directory
C13_Witness ==
    /\ Succeeded("saveFile")
    /\ root # pre
    /\ \E n \in subtreeNodes(root) : isDir(n) /\ Len(n.children) = 2

(* --------------------------------- C14 -------------------------------- *)

RECURSIVE consistentUnder(_, _)
\* the fullPath of every node of the subtree is the join of the names that
\* lead to it from the root
consistentUnder(node, names) ==
    /\ node.fullPath = join(names, pathSeparator)
    /\ isDir(node) =>
           \A i \in 1..Len(node.children) :
               consistentUnder(node.children[i],
                               Append(names, node.children[i].name))

\* C14: the fullPath stored on every node, and carried by the event emitted
\* for it, is the join of the names of its ancestors below the root and its
\* own, whatever form of path saveFile or ensureDirectory was given; the
\* root has the empty name and the empty fullPath.
C14_FullPaths ==
    /\ root.name = <<>>
    /\ consistentUnder(root, <<>>)
    /\ \A i \in 1..Len(events) :
           events[i].fullPath =
               join(getPathNodes(events[i].fullPath), pathSeparator)

(* --------------------------------- C15 -------------------------------- *)

\* the call's path resolves to the root
OnRoot == getPathNodes(call.fullPath) = <<>>

\* C15: deleteDirectory on a path that resolves to the root fails, whatever
\* its recursive argument, saveFile on such a path fails, and in every
\* state the root is there and is a directory.
C15_RootPermanent ==
    /\ isDir(root) /\ root.name = <<>> /\ root.fullPath = <<>>
    /\ (Ran("deleteDirectory") /\ OnRoot) =>
           (outcome.err = ErrDeleteRoot /\ root = pre /\ events = <<>>)
    /\ (Ran("saveFile") /\ OnRoot) =>
           (outcome.err # None /\ root = pre /\ events = <<>>)

\* a recursive deleteDirectory was called on the root of a tree that has
\* nodes
C15_Witness ==
    /\ Failed("deleteDirectory")
    /\ OnRoot
    /\ call.recursive
    /\ Len(pre.children) > 0

\* a saveFile was called on a path of separators only
C15_WitnessSave ==
    /\ Failed("saveFile")
    /\ OnRoot
    /\ call.fullPath # <<>>

(* --------------------------------- C16 -------------------------------- *)

\* the messages of the errors of a node of the wrong type
TypeMismatch == {ErrFileSave, ErrFileIsNotDir, ErrDirIsNotFile, ErrFileIsDir}

\* the messages of the errors of a missing node
NotFound == {ErrCannotFind, ErrReadFolder}

\* the call met a node of the wrong type where its path leads
Mismatched ==
    LET names == getPathNodes(call.fullPath)
        target == nodeAt(pre, names)
    IN  /\ pc = "settling"
        /\ \/ call.op \in {"saveFile", "deleteFile", "loadTextFile"} /\ isDir(target)
           \/ call.op = "deleteDirectory" /\ isFile(target)
           \/ /\ call.op = "ensureDirectory"
              /\ \E k \in 1..Len(names) : isFile(nodeAt(pre, Prefix(names, k)))

\* the error the source throws for the mismatch of each operation
mismatchError ==
    CASE call.op = "saveFile" -> ErrFileSave
      [] call.op = "deleteFile" -> ErrDirIsNotFile
      [] call.op = "loadTextFile" -> ErrFileIsDir
      [] OTHER -> ErrFileIsNotDir

\* the checks that come before the look at the node let the call through:
\* its path leads below the root and is not ignored, nor is, for saveFile,
\* the path of the parent directory it ensures
PastEarlierChecks ==
    LET names == getPathNodes(call.fullPath)
    IN  /\ names # <<>>
        /\ ~isIgnored(call.fullPath)
        /\ call.op = "saveFile" => ~isIgnored(join(Front(names), pathSeparator))

\* C16, as claimed: saveFile where a directory occupies the path,
\* ensureDirectory where a file occupies a segment of it, deleteFile on a
\* directory, deleteDirectory on a file and loadTextFile on a directory each
\* fail with a TypeMismatch error, which is no NotFound error, and change
\* nothing and emit nothing.
C16_TypeMismatch_Claimed ==
    Mismatched =>
        /\ outcome.err \in TypeMismatch
        /\ root = pre
        /\ events = <<>>

\* C16, amended: the same, for a path below the root that is not ignored and,
\* for saveFile, whose parent path is not ignored either; the error is the
\* one of the operation.
C16_TypeMismatch ==
    (Mismatched /\ PastEarlierChecks) =>
        /\ outcome.err = mismatchError
        /\ outcome.err \in TypeMismatch \ NotFound
        /\ root = pre
        /\ events = <<>>

\* deleteFile was called on a directory
C16_Witness ==
    /\ Mismatched /\ PastEarlierChecks
    /\ call.op = "deleteFile"

\* ensureDirectory was called through a file
C16_WitnessEnsure ==
    /\ Mismatched /\ PastEarlierChecks
    /\ call.op = "ensureDirectory"
    /\ Len(getPathNodes(call.fullPath)) = 2

\* saveFile was called on a directory
C16_WitnessSave ==
    /\ Mismatched /\ PastEarlierChecks
    /\ call.op = "saveFile"


(* --------------------------------- C17 -------------------------------- *)

\* the places of an occurrence in the order of a call's settlements
placesIn(order, what) == {i \in 1..Len(order) : order[i] = what}

\* C17: for each operation of the contract called through the proxy, once
\* the timer has fired on a wrapped operation that had not settled, the call
\* is rejected with the error "timed out", it was rejected before the
\* wrapped operation settled, and the caller is not waiting any more.
C17_Timeout ==
    \A id \in CallIds :
        proxied[id].timer = "fired" =>
            /\ proxied[id].caller = Rejected(ErrTimedOut)
            /\ \A i \in placesIn(proxied[id].order, "caller"),
                  j \in placesIn(proxied[id].order, "inner") : i < j

\* a stat and a saveFile have timed out, each on a wrapped operation still
\* pending
C17_Witness ==
    /\ \A id \in CallIds :
           proxied[id].timer = "fired" /\ proxied[id].inner = Pending
    /\ proxied[1].op = "stat" /\ proxied[2].op = "saveFile"

(* --------------------------------- C18 -------------------------------- *)

\* C18: each call through the proxy settles once, with the first outcome:
\* the outcome of the wrapped operation, as it is, if that settled while the
\* call was pending, and Timeout if the timer fired first, whatever the
\* wrapped operation settles with later; the wrapped operation is invoked
\* once.
C18_FirstOutcome ==
    \A id \in CallIds :
        LET p == proxied[id]
        IN  p.op # "none" =>
                /\ p.invoked = 1
                /\ Cardinality(placesIn(p.order, "caller")) <= 1
                /\ (p.order # <<>> /\ Head(p.order) = "inner") =>
                       (p.caller = p.inner /\ p.timer = "cleared")
                /\ (p.order # <<>> /\ Head(p.order) = "caller") =>
                       (p.caller = Rejected(ErrTimedOut) /\ p.timer = "fired")
                /\ p.order = <<>> => (p.caller = Pending /\ p.timer = "armed")

\* the wrapped operation settled after the call had timed out
C18_Witness ==
    \E id \in CallIds :
        /\ proxied[id].order = <<"caller", "inner">>
        /\ proxied[id].inner = Resolved("result")

\* the wrapped operation failed before the timer fired
C18_WitnessError ==
    \E id \in CallIds :
        /\ proxied[id].order = <<"inner", "caller">>
        /\ proxied[id].caller = Rejected("inner error")

(* --------------------------------- C19 -------------------------------- *)

\* the wrapped operation of the call has run to its end, and if it was a
\* mutation that succeeded, the mutation is applied and its event was handed
\* to the subscribers
RanToCompletion(id) ==
    /\ proxied[id].inner \in InnerOutcomes
    /\ (proxied[id].inner.state = "resolved" /\ proxied[id].op \in Mutating) =>
           /\ \E i \in 1..Len(applied) : applied[i] = <<id, proxied[id].op>>
           /\ \E i \in 1..Len(heard) : heard[i] = changeOf(id, proxied[id].op)

\* C19: a call that was rejected with Timeout leaves its wrapped operation
\* running: the operation settles in the end, its mutation is applied to the
\* wrapped implementation and its event is handed to the subscribers
\* registered through the proxy.
C19_NoCancel ==
    \A id \in CallIds :
        [](proxied[id].caller = Rejected(ErrTimedOut) => <>RanToCompletion(id))

\* a saveFile that had timed out has been applied and its event heard
C19_Witness ==
    \E id \in CallIds :
        /\ proxied[id].order = <<"caller", "inner">>
        /\ proxied[id].op = "saveFile"
        /\ proxied[id].inner = Resolved("result")
        /\ RanToCompletion(id)

(* --------------------------------- C20 -------------------------------- *)

\* the events the store has emitted since the client's init() completed
due(c) == SubSeq(emitted, since[c] + 1, Len(emitted))

\* what the client has re-emitted is the beginning of what is due to it,
\* event by event, and while it is connected the rest is on its way, each
\* event once
Transparent(c) ==
    /\ Len(received[c]) <= Len(due(c))
    /\ received[c] = SubSeq(due(c), 1, Len(received[c]))
    /\ conn[c] = "ready" => received[c] \o channel[c] = due(c)

\* C20: on every client, the events re-emitted are the events the store
\* emitted after the client's init() completed, each once, as it was and in
\* the order of emission, so that the clients of one server, and a local
\* subscriber of the store, see one sequence; a client that stays connected
\* comes to have re-emitted every event published to it.
C20_BridgeEvents ==
    \A c \in Clients :
        [](/\ Transparent(c)
           /\ conn[c] = "ready" => <>(conn[c] # "ready" \/ received[c] = due(c)))

\* both clients have re-emitted two different events in the store's order,
\* the second client having missed nothing
C20_Witness ==
    /\ \A c \in Clients : conn[c] = "ready" /\ Len(received[c]) = 2
    /\ received[1] = received[2]
    /\ received[1][1] # received[1][2]
    /\ Len(emitted) = MaxEmitted

(* --------------------------------- C21 -------------------------------- *)

\* the steps the connection of a client may take
ConnectionStep(c) ==
    \/ conn[c] = "new" /\ conn'[c] = "connecting"
    \/ conn[c] = "connecting" /\ conn'[c] \in {"ready", "errored"}
    \/ conn[c] = "ready" /\ conn'[c] \in {"closed", "errored"}

\* what init() has yielded fits the connection
InitFits(c) ==
    /\ inited[c] = Pending <=> conn[c] = "connecting"
    /\ inited[c] = NotMade <=> conn[c] = "new"
    /\ inited[c].state = "resolved" => conn[c] \in {"ready", "closed", "errored"}
    /\ inited[c].state = "rejected" =>
           (inited[c] = Rejected(ErrConnection) /\ conn[c] = "errored")
    /\ inited[c] # Resolved("client") =>
           \A k \in RemoteCallIds : remote[c][k] = NotMade

\* C21: the connection of a client only moves connecting -> ready ->
\* (closed | errored) and stays closed or errored; init() yields a client
\* only on a ready connection and fails with ConnectionError otherwise; on a
\* connection that has ended no call comes to succeed, or to fail with
\* another error, and every call pending then or made later fails with
\* ConnectionError in the end.
C21_Connection ==
    /\ [][\A c \in Clients : conn'[c] # conn[c] => ConnectionStep(c)]_conn
    /\ [][\A c \in Clients, k \in RemoteCallIds :
             Ended(c) =>
                 remote'[c][k] \in
                     {remote[c][k], Pending, Rejected(ErrConnection)}]_remote
    /\ \A c \in Clients :
           [](/\ InitFits(c)
              /\ \A k \in RemoteCallIds :
                     (Ended(c) /\ remote[c][k] = Pending) =>
                         <>(remote[c][k] = Rejected(ErrConnection)))

\* on a dropped connection, a call that was pending at the drop and a call
\* made after it have both failed with ConnectionError
C21_Witness ==
    \E c \in Clients :
        /\ conn[c] = "errored"
        /\ inited[c] = Resolved("client")
        /\ \A k \in RemoteCallIds : remote[c][k] = Rejected(ErrConnection)

(* --------------------------------- C22 -------------------------------- *)

\* C22: while subscribers call saveFile, ensureDirectory, deleteFile or
\* deleteDirectory on the store from inside their callbacks, every
\* directoryCreated, fileCreated and fileChanged event of the call in
\* progress is emitted for a node reachable from the root when it is
\* emitted, and a saveFile that reports success has its file in the tree.
C22_Reentrancy ==
    /\ \A i \in 1..Len(walk.seen) : walk.seen[i]
    /\ Succeeded("saveFile") =>
           isFile(nodeAt(root, getPathNodes(call.fullPath)))

(* --------------------------------- C23 -------------------------------- *)

RECURSIVE shape(_)
\* a tree as replay knows it: names, types, file contents, children in order
shape(node) ==
    IF isDir(node)
    THEN [type |-> "dir", name |-> node.name,
          children |-> [i \in 1..Len(node.children) |-> shape(node.children[i])]]
    ELSE [type |-> "file", name |-> node.name, content |-> node.content]

\* the replayed tree with a node added below the directory the names lead to
added(tree, names, node) ==
    setChildren(tree, names, Append(nodeAt(tree, names).children, node))

\* whether the event fits the replayed tree: a creation names a free place
\* in a directory replay has, a change names a file replay has, a deletion
\* names a node of its type that replay had before the call (the events of
\* a recursive deletion come parent first)
fits(tree, before, e) ==
    LET names == getPathNodes(e.fullPath)
    IN  CASE e.type \in {"directoryCreated", "fileCreated"} ->
                 /\ names # <<>>
                 /\ isDir(nodeAt(tree, Front(names)))
                 /\ nodeAt(tree, names) = Null
          [] e.type = "fileChanged" -> isFile(nodeAt(tree, names))
          [] e.type = "fileDeleted" -> isFile(nodeAt(before, names))
          [] e.type = "directoryDeleted" ->
                 names # <<>> /\ isDir(nodeAt(before, names))

\* the replayed tree after the event, an event that does not fit being
\* passed over
after(tree, before, e) ==
    LET names == getPathNodes(e.fullPath)
    IN  IF ~fits(tree, before, e) THEN tree
        ELSE CASE e.type = "directoryCreated" ->
                      added(tree, Front(names),
                            [type |-> "dir", name |-> Last(names), children |-> <<>>])
               [] e.type = "fileCreated" ->
                      added(tree, Front(names),
                            [type |-> "file", name |-> Last(names),
                             content |-> e.newContent])
               [] e.type = "fileChanged" ->
                      LET parent == nodeAt(tree, Front(names))
                      IN  setChildren(tree, Front(names),
                              withContent(parent.children,
                                  findIndex(parent.children, Last(names)),
                                  e.newContent))
               [] OTHER ->
                      IF nodeAt(tree, names) = Null THEN tree
                      ELSE withoutSubtree(tree, names)

RECURSIVE replay(_, _, _)
\* the replay of events onto a tree: the tree it yields and whether every
\* event fitted
replay(tree, before, evs) ==
    IF evs = <<>> THEN [tree |-> tree, ok |-> TRUE]
    ELSE LET rest == replay(after(tree, before, Head(evs)), before, Tail(evs))
         IN  [tree |-> rest.tree,
              ok |-> fits(tree, before, Head(evs)) /\ rest.ok]

\* C23: the events determine the tree.  Replayed in order onto the tree as
\* it was before a call, the events of the call yield the tree as it is
\* after the call, in names, types and contents, and each of them fits the
\* replayed tree: call after call from the empty store, the replay of the
\* whole log yields the store's tree.
C23_EventsDetermineTree ==
    pc = "settling" =>
        LET played == replay(shape(pre), shape(pre), events)
        IN  /\ played.ok
            /\ played.tree = shape(root)

(* --------------------------------- C24 -------------------------------- *)

Reads == {"loadTextFile", "loadDirectoryTree", "loadDirectoryChildren"}

\* what the read of the call yields on tree r
readOf(r) ==
    CASE call.op = "loadTextFile" -> loadTextFileSync(r, call.fullPath)
      [] call.op = "loadDirectoryTree" -> loadDirectoryTreeSync(r, call.fullPath)
      [] call.op = "loadDirectoryChildren" ->
             loadDirectoryChildrenSync(r, call.fullPath)

\* C24: loadTextFile, loadDirectoryTree and loadDirectoryChildren, on any
\* tree and path and whether they succeed or fail, leave the tree as it was
\* and emit no event, and the same read made again at once ends as the
\* first did, with an equal result.
C24_ReadsArePure ==
    (pc = "settling" /\ call.op \in Reads) =>
        /\ root = pre
        /\ events = <<>>
        /\ readOf(root).root = root
        /\ readOf(root).events = <<>>
        /\ readOf(root).err = outcome.err
        /\ outcome.err = None => readOf(root).ret = outcome.ret

\* a tree of two levels was read
C24_Witness ==
    /\ Succeeded("loadDirectoryTree")
    /\ call.fullPath = <<>>
    /\ \E i \in 1..Len(outcome.ret.children) :
           /\ isDir(outcome.ret.children[i])
           /\ Len(outcome.ret.children[i].children) > 0

\* a file that is not there was read
C24_WitnessMissing ==
    /\ Failed("loadTextFile")
    /\ outcome.err = ErrCannotFind

====
